---- MODULE Spec2Model ----
(***************************************************************************)
(* Model of gitlab-sshd's Server (internal/sshd/sshd.go): the listener     *)
(* lifecycle, the accept loop, Shutdown, the monitoring probes, the        *)
(* per-connection handler with its deferred calls, the public-key callback *)
(* and the per-connection session limiter.                                 *)
(***************************************************************************)
EXTENDS Integers, Sequences, FiniteSets, TLC

\* ---------------------------------------------------------------- bounds
MaxConns == 2
MaxShutdowns == 2
MaxChans == 3
MaxLimit == 2
MaxKeyFiles == 3

ConnIds == 1..MaxConns
ShutdownIds == 1..MaxShutdowns
ChanIds == 1..MaxChans
SessionLimits == 0..MaxLimit

\* ------------------------------------------------------------- constants
StatusStarting == 0
StatusReady == 1
StatusOnShutdown == 2
StatusClosed == 3

HttpOK == 200
HttpServiceUnavailable == 503

Nil == "nil"

\* Config.User, the single service account
ConfigUser == "git"
KeyAlgoDSA == "ssh-dss"
KeyAlgoED25519 == "ssh-ed25519"

Users == {ConfigUser, "root"}
KeyTypes == {KeyAlgoDSA, KeyAlgoED25519}
KeyIds == {0, 7, 105, -12}
GwErrors == {"denied", "failure", "timeout"}

\* what authorizedKeysClient.GetByKey can answer
GwOk(id) == [err |-> "none", id |-> id]
GwErr(e) == [err |-> e, id |-> 0]
GwReplies == {GwOk(id) : id \in KeyIds} \cup {GwErr(e) : e \in GwErrors}

VARIABLES
    status,      \* Server.status
    listener,    \* Server.listener: "nil", "open" or "closed"
    closeCalls,  \* number of Close calls made on the bound listener
    wg,          \* Server.wg counter
    lasPc,       \* position of the goroutine running ListenAndServe
    accepted,    \* connection returned by the last Accept, 0 when none
    sdPc,        \* position of each Shutdown caller
    conns,       \* per accepted connection: the handleConn goroutine
    crashed,     \* TRUE once a panic has left a goroutine unrecovered
    probe,       \* the last answer given by a monitoring route
    cfgLimit,    \* Config.Server.ConcurrentSessionsLimit
    lastAuth,    \* the last invocation of the public-key callback
    ns           \* the call of NewServer: its inputs, position and result

vars == <<status, listener, closeCalls, wg, lasPc, accepted, sdPc, conns,
          crashed, probe, cfgLimit, lastAuth, ns>>

\* ------------------------------------------------------- status accessors
changeStatus(st) == status' = st

getStatus == status

\* --------------------------------------------------------------- handlers
\* *ssh.Permissions: nil, or Extensions{"key-id": keyId}
NoPerms == [ok |-> FALSE, keyId |-> <<>>]
Permissions(keyId) == [ok |-> TRUE, keyId |-> keyId]

\* the fields of a session the handler sets from the connection
NoSession == [gitlabKeyId |-> <<>>, remoteAddr |-> <<>>]

\* nconn.RemoteAddr().String(): the peers of two connections differ
RemoteAddr(c) == <<"peer", c>>

NoConn ==
    [pc |-> "none", ctx |-> Nil, nconn |-> Nil, panicking |-> FALSE,
     panicked |-> FALSE, perms |-> NoPerms, limit |-> 0, held |-> 0,
     chans |-> [k \in ChanIds |-> "new"], lastExit |-> Nil,
     remoteAddr |-> <<>>, sessions |-> [k \in ChanIds |-> NoSession],
     authGw |-> GwErr(Nil), rejected |-> FALSE, startedIn |-> StatusStarting]

NoAuth ==
    [user |-> Nil, keyType |-> Nil, gw |-> GwErr(Nil),
     calls |-> 0, perms |-> NoPerms, err |-> Nil]

NoProbe == [route |-> Nil, seen |-> StatusStarting, code |-> 0]

\* ------------------------------------------------------------- NewServer
\* what a configured host key file turns out to be
KeyFileKinds == {"valid", "unreadable", "unparseable"}

\* cfg.Server.HostKeyFiles, each file by what reading and parsing it gives
HostKeyFileLists == UNION {[1..n -> KeyFileKinds] : n \in 0..MaxKeyFiles}

\* NewServer has returned a Server built from one good host key file.
ServerBuilt ==
    [pc |-> "ok", files |-> <<"valid">>, clientOk |-> TRUE, i |-> 2,
     hostKeys |-> <<1>>, server |-> TRUE, err |-> Nil]

\* authorizedkeys.NewClient(cfg)
NewClient ==
    /\ ns.pc = "newClient"
    /\ ns' = IF ns.clientOk
             THEN [ns EXCEPT !.pc = "loop"]
             ELSE [ns EXCEPT !.pc = "failed",
                             !.err = "failed to initialize GitLab client"]
    /\ UNCHANGED <<status, listener, closeCalls, wg, lasPc, accepted, sdPc,
                   conns, crashed, probe, cfgLimit, lastAuth>>

\* one pass of the loop body: the key of file i, named by i, is appended
\* unless reading or parsing the file fails
LoadKeyUnparsed(hostKeys, i, kind) ==
    IF kind = "unreadable" THEN hostKeys ELSE Append(hostKeys, i)

LoadKey(hostKeys, i, kind) ==
    IF kind = "unreadable" THEN hostKeys
    ELSE IF kind = "unparseable" THEN hostKeys
    ELSE Append(hostKeys, i)

LoadHostKey ==
    /\ ns.pc = "loop"
    /\ ns.i <= Len(ns.files)
    /\ ns' = [ns EXCEPT !.hostKeys = LoadKey(ns.hostKeys, ns.i, ns.files[ns.i]),
                        !.i = ns.i + 1]
    /\ UNCHANGED <<status, listener, closeCalls, wg, lasPc, accepted, sdPc,
                   conns, crashed, probe, cfgLimit, lastAuth>>

\* after the loop: no host key is fatal, else the Server is returned
CheckHostKeys ==
    /\ ns.pc = "loop"
    /\ ns.i > Len(ns.files)
    /\ ns' = IF Len(ns.hostKeys) = 0
             THEN [ns EXCEPT !.pc = "failed",
                             !.err = "No host keys could be loaded, aborting"]
             ELSE [ns EXCEPT !.pc = "ok", !.server = TRUE]
    /\ UNCHANGED <<status, listener, closeCalls, wg, lasPc, accepted, sdPc,
                   conns, crashed, probe, cfgLimit, lastAuth>>

\* The Server returned by NewServer, with its configuration.
Init ==
    /\ status = StatusStarting
    /\ listener = Nil
    /\ closeCalls = 0
    /\ wg = 0
    /\ lasPc = "start"
    /\ accepted = 0
    /\ sdPc = [i \in ShutdownIds |-> "idle"]
    /\ conns = [c \in ConnIds |-> NoConn]
    /\ crashed = FALSE
    /\ probe = NoProbe
    /\ cfgLimit = MaxLimit
    /\ lastAuth = NoAuth
    /\ ns = ServerBuilt

\* ------------------------------------------------ ListenAndServe / listen
\* net.Listen succeeds: the listener field is set and serve is entered.
ListenOk ==
    /\ ~crashed
    /\ lasPc = "start"
    /\ listener' = "open"
    /\ lasPc' = "serve"
    /\ UNCHANGED <<ns, status, closeCalls, wg, accepted, sdPc, conns, crashed, probe, cfgLimit, lastAuth>>

\* net.Listen fails: ListenAndServe returns the error.
ListenFailAfterReady ==
    /\ ~crashed
    /\ lasPc = "start"
    /\ changeStatus(StatusReady)
    /\ lasPc' = "bindError"
    /\ UNCHANGED <<ns, listener, closeCalls, wg, accepted, sdPc, conns,
                   crashed, probe, cfgLimit, lastAuth>>

ListenFail ==
    /\ ~crashed
    /\ lasPc = "start"
    /\ lasPc' = "bindError"
    /\ UNCHANGED <<ns, status, listener, closeCalls, wg, accepted, sdPc, conns,
                   crashed, probe, cfgLimit, lastAuth>>

\* ------------------------------------------------------------------ serve
ServeReady ==
    /\ ~crashed
    /\ lasPc = "serve"
    /\ changeStatus(StatusReady)
    /\ lasPc' = "accept"
    /\ UNCHANGED <<ns, listener, closeCalls, wg, accepted, sdPc, conns, crashed, probe, cfgLimit, lastAuth>>

\* Accept returns a connection.
AcceptOkOnClosed(c) ==
    /\ ~crashed
    /\ lasPc = "accept"
    /\ conns[c].pc = "none"
    /\ \A d \in ConnIds : d < c => conns[d].pc # "none"
    /\ accepted' = c
    /\ lasPc' = "spawn"
    /\ UNCHANGED <<ns, status, listener, closeCalls, wg, sdPc, conns, crashed, probe, cfgLimit, lastAuth>>

AcceptOk(c) ==
    /\ ~crashed
    /\ lasPc = "accept"
    /\ listener = "open"
    /\ conns[c].pc = "none"
    /\ \A d \in ConnIds : d < c => conns[d].pc # "none"
    /\ accepted' = c
    /\ lasPc' = "spawn"
    /\ UNCHANGED <<ns, status, listener, closeCalls, wg, sdPc, conns, crashed, probe, cfgLimit, lastAuth>>

\* Accept returns an error: always on a closed listener, and also as a
\* transient failure of an open one.
AcceptErr ==
    /\ ~crashed
    /\ lasPc = "accept"
    /\ listener \in {"open", "closed"}
    /\ lasPc' = "acceptErr"
    /\ UNCHANGED <<ns, status, listener, closeCalls, wg, accepted, sdPc, conns,
                   crashed, probe, cfgLimit, lastAuth>>

\* The loop exits on an Accept error exactly when status is OnShutdown.
BreakOnAnyError(st) == TRUE

BreakOnError(st) == st = StatusOnShutdown

AcceptErrCheck ==
    /\ ~crashed
    /\ lasPc = "acceptErr"
    /\ lasPc' = IF BreakOnError(getStatus) THEN "wait" ELSE "accept"
    /\ UNCHANGED <<ns, status, listener, closeCalls, wg, accepted, sdPc, conns,
                   crashed, probe, cfgLimit, lastAuth>>

\* s.wg.Add(1); go s.handleConn(ctx, nconn)
Spawn ==
    /\ ~crashed
    /\ lasPc = "spawn"
    /\ wg' = wg + 1
    /\ conns' = [conns EXCEPT ![accepted].pc = "handshake",
                              ![accepted].ctx = "live",
                              ![accepted].nconn = "open",
                              ![accepted].remoteAddr = RemoteAddr(accepted),
                              ![accepted].startedIn = status]
    /\ accepted' = 0
    /\ lasPc' = "accept"
    /\ UNCHANGED <<ns, status, listener, closeCalls, sdPc, crashed, probe, cfgLimit, lastAuth>>

\* s.wg.Wait() returns once the counter is zero.
WaitReturnsEarly(n) == TRUE

WaitReturns(n) == n = 0

Wait ==
    /\ ~crashed
    /\ lasPc = "wait"
    /\ WaitReturns(wg)
    /\ lasPc' = "closing"
    /\ UNCHANGED <<ns, status, listener, closeCalls, wg, accepted, sdPc, conns,
                   crashed, probe, cfgLimit, lastAuth>>

ServeClosed ==
    /\ ~crashed
    /\ lasPc = "closing"
    /\ changeStatus(StatusClosed)
    /\ lasPc' = "deferClose"
    /\ UNCHANGED <<ns, listener, closeCalls, wg, accepted, sdPc, conns, crashed, probe, cfgLimit, lastAuth>>

\* defer s.listener.Close(), then return nil
DeferredListenerCloseSkipped ==
    /\ ~crashed
    /\ lasPc = "deferClose"
    /\ lasPc' = "returned"
    /\ UNCHANGED <<ns, status, listener, closeCalls, wg, accepted, sdPc, conns,
                   crashed, probe, cfgLimit, lastAuth>>

DeferredListenerClose ==
    /\ ~crashed
    /\ lasPc = "deferClose"
    /\ listener' = "closed"
    /\ closeCalls' = closeCalls + 1
    /\ lasPc' = "returned"
    /\ UNCHANGED <<ns, status, wg, accepted, sdPc, conns, crashed, probe, cfgLimit, lastAuth>>

\* --------------------------------------------------------------- Shutdown
\* s.listener is read without synchronisation with listen(): the read sees
\* nil or the bound listener, as the two calls interleave.
\* The nil test and changeStatus(StatusOnShutdown) are one step: a listener
\* once set is never unset, so no step of another goroutine between the two
\* can change what the call does.
ShutdownCall(i) ==
    /\ ~crashed
    /\ sdPc[i] = "idle"
    /\ \A j \in ShutdownIds : j < i => sdPc[j] # "idle"
    /\ IF listener = Nil
       THEN /\ sdPc' = [sdPc EXCEPT ![i] = "noop"]
            /\ UNCHANGED status
       ELSE /\ changeStatus(StatusOnShutdown)
            /\ sdPc' = [sdPc EXCEPT ![i] = "close"]
    /\ UNCHANGED <<ns, listener, closeCalls, wg, lasPc, accepted, conns, crashed,
                   probe, cfgLimit, lastAuth>>

ShutdownCloseAll(i) ==
    /\ ~crashed
    /\ sdPc[i] = "close"
    /\ listener' = "closed"
    /\ closeCalls' = closeCalls + 1
    /\ sdPc' = [sdPc EXCEPT ![i] = "done"]
    /\ conns' = [c \in ConnIds |->
                   IF conns[c].pc \in {"handshake", "handle"}
                   THEN [conns[c] EXCEPT !.ctx = "canceled", !.nconn = "closed"]
                   ELSE conns[c]]
    /\ UNCHANGED <<ns, status, wg, lasPc, accepted, crashed, probe, cfgLimit, lastAuth>>

\* return s.listener.Close()
ShutdownClose(i) ==
    /\ ~crashed
    /\ sdPc[i] = "close"
    /\ listener' = "closed"
    /\ closeCalls' = closeCalls + 1
    /\ sdPc' = [sdPc EXCEPT ![i] = "done"]
    /\ UNCHANGED <<ns, status, wg, lasPc, accepted, conns, crashed, probe, cfgLimit, lastAuth>>

\* ----------------------------------------------------- MonitoringServeMux
ReadinessCodeOnceStarted(st) ==
    IF st # StatusStarting THEN HttpOK ELSE HttpServiceUnavailable

ReadinessCode(st) == IF st = StatusReady THEN HttpOK ELSE HttpServiceUnavailable

LivenessCode(st) == HttpOK

Readiness ==
    /\ ~crashed
    /\ probe' = [route |-> "readiness", seen |-> getStatus,
                 code |-> ReadinessCode(getStatus)]
    /\ UNCHANGED <<ns, status, listener, closeCalls, wg, lasPc, accepted, sdPc,
                   conns, crashed, cfgLimit, lastAuth>>

Liveness ==
    /\ ~crashed
    /\ probe' = [route |-> "liveness", seen |-> getStatus,
                 code |-> LivenessCode(getStatus)]
    /\ UNCHANGED <<ns, status, listener, closeCalls, wg, lasPc, accepted, sdPc,
                   conns, crashed, cfgLimit, lastAuth>>

\* ------------------------------------------------------ PublicKeyCallback
Digit(d) == <<"0", "1", "2", "3", "4", "5", "6", "7", "8", "9">>[d + 1]

RECURSIVE FormatUint(_, _)
FormatUint(u, base) ==
    IF u < base THEN <<Digit(u)>>
    ELSE FormatUint(u \div base, base) \o <<Digit(u % base)>>

\* strconv.FormatInt
FormatInt(i, base) ==
    IF i < 0 THEN <<"-">> \o FormatUint(-i, base) ELSE FormatUint(i, base)

\* The callback for one presented key; gw is what GetByKey answers when it
\* is called, calls the number of GetByKey invocations made.
PublicKeyCallbackIgnoresErr(user, keyType, gw) ==
    IF user # ConfigUser
    THEN [perms |-> NoPerms, err |-> "unknown user", calls |-> 0]
    ELSE IF keyType = KeyAlgoDSA
    THEN [perms |-> NoPerms, err |-> "DSA is prohibited", calls |-> 0]
    ELSE [perms |-> Permissions(FormatInt(gw.id, 10)), err |-> "none",
          calls |-> 1]

PublicKeyCallbackDSALate(user, keyType, gw) ==
    IF user # ConfigUser
    THEN [perms |-> NoPerms, err |-> "unknown user", calls |-> 0]
    ELSE IF gw.err # "none"
    THEN [perms |-> NoPerms, err |-> gw.err, calls |-> 1]
    ELSE IF keyType = KeyAlgoDSA
    THEN [perms |-> NoPerms, err |-> "DSA is prohibited", calls |-> 1]
    ELSE [perms |-> Permissions(FormatInt(gw.id, 10)), err |-> "none",
          calls |-> 1]

PublicKeyCallback(user, keyType, gw) ==
    IF user # ConfigUser
    THEN [perms |-> NoPerms, err |-> "unknown user", calls |-> 0]
    ELSE IF keyType = KeyAlgoDSA
    THEN [perms |-> NoPerms, err |-> "DSA is prohibited", calls |-> 0]
    ELSE IF gw.err # "none"
    THEN [perms |-> NoPerms, err |-> gw.err, calls |-> 1]
    ELSE [perms |-> Permissions(FormatInt(gw.id, 10)), err |-> "none",
          calls |-> 1]

\* ------------------------------------------------------------- handleConn
\* the limit handed to newConnection
NewConnectionLimitPlusOne == cfgLimit + 1

NewConnectionLimitDoubled == 2 * cfgLimit

NewConnectionLimit == cfgLimit

\* ssh.NewServerConn runs the callback for a key the client presents; the
\* handshake succeeds with the permissions of an accepted key.
AuthAttempt(c, user, keyType, gw) ==
    /\ ~crashed
    /\ conns[c].pc = "handshake"
    /\ LET r == PublicKeyCallback(user, keyType, gw) IN
        /\ lastAuth' = [user |-> user, keyType |-> keyType,
                        gw |-> gw, calls |-> r.calls, perms |-> r.perms,
                        err |-> r.err]
        /\ conns' = IF r.err = "none"
                    THEN [conns EXCEPT ![c].pc = "handle",
                                       ![c].perms = r.perms,
                                       ![c].limit = NewConnectionLimit,
                                       ![c].authGw = gw]
                    ELSE [conns EXCEPT ![c].rejected = TRUE]
    /\ UNCHANGED <<ns, status, listener, closeCalls, wg, lasPc, accepted, sdPc,
                   crashed, probe, cfgLimit>>

\* ssh.NewServerConn returns an error: handleConn returns.
HandshakeFailNoDone(c) ==
    /\ ~crashed
    /\ conns[c].pc = "handshake"
    /\ conns' = [conns EXCEPT ![c].pc = "done", ![c].ctx = "canceled",
                              ![c].nconn = "closed"]
    /\ UNCHANGED <<ns, status, listener, closeCalls, wg, lasPc, accepted, sdPc,
                   crashed, probe, cfgLimit, lastAuth>>

HandshakeFail(c) ==
    /\ ~crashed
    /\ conns[c].pc = "handshake"
    /\ conns' = [conns EXCEPT ![c].pc = "deferred"]
    /\ UNCHANGED <<ns, status, listener, closeCalls, wg, lasPc, accepted, sdPc,
                   crashed, probe, cfgLimit, lastAuth>>

\* ---------------------------------------------- connection.handle, sessions
ActiveChans(c) == {k \in ChanIds : conns[c].chans[k] = "active"}

\* the limiter's non-blocking acquire: a limit <= 0 admits unconditionally
TryAcquire(held, limit) == limit <= 0 \/ held < limit

\* the session the handler builds for an admitted channel: the key-id of the
\* permissions of this connection's handshake and this connection's peer
NewSessionLastAuth(c) ==
    [gitlabKeyId |-> lastAuth.perms.keyId, remoteAddr |-> conns[c].remoteAddr]

NewSession(c) ==
    [gitlabKeyId |-> conns[c].perms.keyId, remoteAddr |-> conns[c].remoteAddr]

\* A channel-open request arrives: admitted with a unit of the limiter, and
\* handed to the handler that builds its session, or rejected at once.
ChannelOpen(c, k) ==
    /\ ~crashed
    /\ conns[c].pc = "handle"
    /\ conns[c].chans[k] = "new"
    /\ \A j \in ChanIds : j < k => conns[c].chans[j] # "new"
    /\ conns' = IF TryAcquire(conns[c].held, conns[c].limit)
                THEN [conns EXCEPT ![c].chans[k] = "active",
                                   ![c].held = conns[c].held + 1,
                                   ![c].sessions[k] = NewSession(c)]
                ELSE [conns EXCEPT ![c].chans[k] = "rejected"]
    /\ UNCHANGED <<ns, status, listener, closeCalls, wg, lasPc, accepted, sdPc,
                   crashed, probe, cfgLimit, lastAuth>>

\* how the handler of an admitted channel can end
SessionOutcomes == {"ok", "error", "panic"}

\* the limiter's release, deferred in the goroutine of the channel
ReleaseUnlessPanic(held, outcome) ==
    IF outcome = "panic" THEN held ELSE held - 1

Release(held, outcome) == held - 1

\* The handler of an admitted channel returns, with a result or through a
\* recovered panic, and releases its unit.
SessionEnd(c, k) ==
    /\ ~crashed
    /\ conns[c].chans[k] = "active"
    /\ \E outcome \in SessionOutcomes :
          conns' = [conns EXCEPT ![c].chans[k] = "ended",
                                 ![c].held = Release(conns[c].held, outcome),
                                 ![c].lastExit = outcome]
    /\ UNCHANGED <<ns, status, listener, closeCalls, wg, lasPc, accepted, sdPc,
                   crashed, probe, cfgLimit, lastAuth>>

\* The channel stream is exhausted and the sessions have returned.
HandleReturn(c) ==
    /\ ~crashed
    /\ conns[c].pc = "handle"
    /\ ActiveChans(c) = {}
    /\ conns' = [conns EXCEPT ![c].pc = "deferred"]
    /\ UNCHANGED <<ns, status, listener, closeCalls, wg, lasPc, accepted, sdPc,
                   crashed, probe, cfgLimit, lastAuth>>

\* A panic in the handshake or in the channel loop starts unwinding.
HandlerPanic(c) ==
    /\ ~crashed
    /\ conns[c].pc \in {"handshake", "handle"}
    /\ conns' = [conns EXCEPT ![c].pc = "deferred", ![c].panicking = TRUE,
                              ![c].panicked = TRUE]
    /\ UNCHANGED <<ns, status, listener, closeCalls, wg, lasPc, accepted, sdPc,
                   crashed, probe, cfgLimit, lastAuth>>

\* the deferred recover(): the panic, if any, stops here
RecoverNothing(panicking) == panicking

Recover(panicking) == FALSE

\* The deferred calls up to the last, in their order: cancel(), the recover
\* closure, nconn.Close().
RunDeferredNoCancel(c) ==
    /\ ~crashed
    /\ conns[c].pc = "deferred"
    /\ conns' = [conns EXCEPT ![c].pc = "deferDone",
                              ![c].panicking = Recover(conns[c].panicking),
                              ![c].nconn = "closed"]
    /\ UNCHANGED <<ns, status, listener, closeCalls, wg, lasPc, accepted, sdPc,
                   crashed, probe, cfgLimit, lastAuth>>

RunDeferred(c) ==
    /\ ~crashed
    /\ conns[c].pc = "deferred"
    /\ conns' = [conns EXCEPT ![c].pc = "deferDone",
                              ![c].ctx = "canceled",
                              ![c].panicking = Recover(conns[c].panicking),
                              ![c].nconn = "closed"]
    /\ UNCHANGED <<ns, status, listener, closeCalls, wg, lasPc, accepted, sdPc,
                   crashed, probe, cfgLimit, lastAuth>>

\* defer s.wg.Done(); a panic still unwinding past it ends the process
DeferWgDone(c) ==
    /\ ~crashed
    /\ conns[c].pc = "deferDone"
    /\ wg' = wg - 1
    /\ conns' = [conns EXCEPT ![c].pc = "done"]
    /\ crashed' = conns[c].panicking
    /\ UNCHANGED <<ns, status, listener, closeCalls, lasPc, accepted, sdPc, probe,
                   cfgLimit, lastAuth>>

\* --------------------------------------------------------- specifications
ServerStep ==
    \/ ListenOk
    \/ ListenFail
    \/ ServeReady
    \/ \E c \in ConnIds : AcceptOk(c)
    \/ AcceptErr
    \/ AcceptErrCheck
    \/ Spawn
    \/ Wait
    \/ ServeClosed
    \/ DeferredListenerClose

ShutdownStep ==
    \/ \E i \in ShutdownIds : ShutdownCall(i)
    \/ \E i \in ShutdownIds : ShutdownClose(i)

HandlerExit(c) ==
    \/ HandshakeFail(c)
    \/ HandleReturn(c)
    \/ RunDeferred(c)
    \/ DeferWgDone(c)

\* The server with its Shutdown callers and connection handlers; clients
\* present an acceptable key and open no channel.
LifecycleReplies == {GwOk(7)}

Next ==
    \/ ServerStep
    \/ ShutdownStep
    \/ \E c \in ConnIds, gw \in LifecycleReplies :
            AuthAttempt(c, ConfigUser, KeyAlgoED25519, gw)
    \/ \E c \in ConnIds : HandlerPanic(c)
    \/ \E c \in ConnIds : HandlerExit(c)

Spec == Init /\ [][Next]_vars

\* The scheduler runs every goroutine that can take a step; a handler that
\* can return does return.
FairSpec ==
    /\ Spec
    /\ WF_vars(ServerStep)
    /\ \A i \in ShutdownIds : WF_vars(ShutdownClose(i))
    /\ \A c \in ConnIds : WF_vars(HandlerExit(c))

\* The server without clients, polled by the monitoring routes.
NextProbe ==
    \/ ListenOk
    \/ ListenFail
    \/ ServeReady
    \/ AcceptErr
    \/ AcceptErrCheck
    \/ Wait
    \/ ServeClosed
    \/ DeferredListenerClose
    \/ ShutdownStep
    \/ Readiness
    \/ Liveness

SpecProbe == Init /\ [][NextProbe]_vars

\* One connection from the moment its handler is spawned, with every key a
\* client can present and every channel it can open.
InitConn ==
    /\ status = StatusReady
    /\ listener = "open"
    /\ closeCalls = 0
    /\ wg = 1
    /\ lasPc = "accept"
    /\ accepted = 0
    /\ sdPc = [i \in ShutdownIds |-> "idle"]
    /\ conns = [c \in ConnIds |->
                  IF c = 1
                  THEN [NoConn EXCEPT !.pc = "handshake", !.ctx = "live",
                                      !.nconn = "open",
                                      !.remoteAddr = RemoteAddr(c),
                                      !.startedIn = StatusReady]
                  ELSE NoConn]
    /\ crashed = FALSE
    /\ probe = NoProbe
    /\ cfgLimit \in SessionLimits
    /\ lastAuth = NoAuth
    /\ ns = ServerBuilt

NextConn ==
    \/ \E c \in ConnIds, user \in Users, keyType \in KeyTypes, gw \in GwReplies :
            AuthAttempt(c, user, keyType, gw)
    \/ \E c \in ConnIds, k \in ChanIds : ChannelOpen(c, k)
    \/ \E c \in ConnIds, k \in ChanIds : SessionEnd(c, k)
    \/ \E c \in ConnIds : HandlerPanic(c)
    \/ \E c \in ConnIds : HandlerExit(c)

SpecConn == InitConn /\ [][NextConn]_vars

\* Two connections in their handshakes side by side, the gateway answering
\* with either of two identities or a refusal; both open channels.
PairReplies == {GwOk(7), GwOk(105), GwErr("denied")}

InitPair ==
    /\ status = StatusReady
    /\ listener = "open"
    /\ closeCalls = 0
    /\ wg = 2
    /\ lasPc = "accept"
    /\ accepted = 0
    /\ sdPc = [i \in ShutdownIds |-> "idle"]
    /\ conns = [c \in ConnIds |->
                  IF c \in {1, 2}
                  THEN [NoConn EXCEPT !.pc = "handshake", !.ctx = "live",
                                      !.nconn = "open",
                                      !.remoteAddr = RemoteAddr(c),
                                      !.startedIn = StatusReady]
                  ELSE NoConn]
    /\ crashed = FALSE
    /\ probe = NoProbe
    /\ cfgLimit = MaxLimit
    /\ lastAuth = NoAuth
    /\ ns = ServerBuilt

NextPair ==
    \/ \E c \in ConnIds, gw \in PairReplies :
            AuthAttempt(c, ConfigUser, KeyAlgoED25519, gw)
    \/ \E c \in ConnIds, k \in ChanIds : ChannelOpen(c, k)

SpecPair == InitPair /\ [][NextPair]_vars

\* The call of NewServer, for every list of host key files and either
\* outcome of the construction of the gateway client.
InitNew ==
    /\ status = StatusStarting
    /\ listener = Nil
    /\ closeCalls = 0
    /\ wg = 0
    /\ lasPc = "start"
    /\ accepted = 0
    /\ sdPc = [i \in ShutdownIds |-> "idle"]
    /\ conns = [c \in ConnIds |-> NoConn]
    /\ crashed = FALSE
    /\ probe = NoProbe
    /\ cfgLimit = MaxLimit
    /\ lastAuth = NoAuth
    /\ \E files \in HostKeyFileLists, clientOk \in BOOLEAN :
          ns = [pc |-> "newClient", files |-> files, clientOk |-> clientOk,
                i |-> 1, hostKeys |-> <<>>, server |-> FALSE, err |-> Nil]

NextNew ==
    \/ NewClient
    \/ LoadHostKey
    \/ CheckHostKeys

SpecNew == InitNew /\ [][NextNew]_vars

TypeOK ==
    /\ status \in StatusStarting..StatusClosed
    /\ listener \in {Nil, "open", "closed"}
    /\ closeCalls \in 0..(MaxShutdowns + 1)
    /\ wg \in 0..MaxConns
    /\ accepted \in 0..MaxConns
    /\ crashed \in BOOLEAN
    /\ cfgLimit \in SessionLimits
    /\ \A c \in ConnIds : conns[c].held \in 0..MaxChans

\* ================================================================= claims

HandlerRunning(c) == conns[c].pc \notin {"none", "done"}

ShutdownStarted(i) == sdPc[i] \in {"close", "done"}

\* C1: no step moves status backward in Starting -> Ready -> OnShutdown ->
\* Closed, under every interleaving of ListenAndServe, Shutdown calls and
\* handlers.
StatusMonotonic == [][status' >= status]_vars

\* C2: drain-before-close: once serve has set status to Closed (and from
\* then on, through the return of ListenAndServe) the accept loop has exited
\* and no spawned handler is still running.
DrainBeforeClose ==
    (status = StatusClosed \/ lasPc \in {"deferClose", "returned"}) =>
        /\ lasPc \in {"deferClose", "returned"}
        /\ \A c \in ConnIds : ~HandlerRunning(c)

\* a server that closed after handlers it had spawned have returned
DrainWitness ==
    /\ status = StatusClosed
    /\ lasPc = "returned"
    /\ \A c \in ConnIds : conns[c].pc = "done"

\* C3: a Shutdown called once the listener is bound leads, with handlers
\* that return, to the accept loop exiting and ListenAndServe returning
\* (which it does right after serve has set status to Closed).
ShutdownLeadsToReturn ==
    (\E i \in ShutdownIds : ShutdownStarted(i)) ~> (lasPc = "returned")

\* C4: the readiness route answers 200 exactly when the status it read is
\* Ready and 503 otherwise; the liveness route answers 200 in every status.
ProbesReflectStatus ==
    /\ probe.route = "readiness" =>
          /\ probe.code = HttpOK <=> probe.seen = StatusReady
          /\ probe.code = HttpServiceUnavailable <=> probe.seen # StatusReady
    /\ probe.route = "liveness" => probe.code = HttpOK

\* a readiness probe answered 503 by a server that is shutting down
ProbeWitness ==
    /\ probe.route = "readiness"
    /\ probe.seen = StatusOnShutdown
    /\ probe.code = HttpServiceUnavailable

\* C5: a panic in one handler stays in that handler: the process goes on,
\* the steps of the panicking handler touch neither the accept loop nor a
\* sibling handler, and the accept loop can still take a new connection.
PanicContained ==
    /\ [](\A c \in ConnIds : conns[c].panicked =>
            /\ ~crashed
            /\ (lasPc = "accept" /\ listener = "open"
                    /\ \E d \in ConnIds : conns[d].pc = "none")
                  => ENABLED (\E d \in ConnIds : AcceptOk(d)))
    /\ [][\A c \in ConnIds :
            (conns[c].panicked \/ conns'[c].panicked) /\ conns'[c] # conns[c]
               => /\ lasPc' = lasPc
                  /\ status' = status
                  /\ listener' = listener
                  /\ \A d \in ConnIds \ {c} : conns'[d] = conns[d]]_vars

\* a connection accepted and served after a sibling's handler panicked and
\* was unwound
PanicWitness ==
    /\ conns[1].panicked
    /\ conns[1].pc = "done"
    /\ ~conns[2].panicked
    /\ conns[2].pc = "handle"

\* C6: with a configured limit L > 0, the sessions active at once on a
\* connection never number more than L.
SessionLimitRespected ==
    \A c \in ConnIds :
        cfgLimit > 0 => Cardinality(ActiveChans(c)) <= cfgLimit

\* a connection at its limit that has turned a channel away
SessionLimitWitness ==
    \E c \in ConnIds :
        /\ cfgLimit > 0
        /\ Cardinality(ActiveChans(c)) = cfgLimit
        /\ \E k \in ChanIds : conns[c].chans[k] = "rejected"

\* C7: a channel-open that arrives while L sessions are active is rejected
\* in that same step, stays rejected for ever and leaves the intake loop
\* running; one that arrives while fewer than L are active is admitted.
RejectedNotQueued ==
    [][\A c \in ConnIds, k \in ChanIds :
         LET before == conns[c].chans[k]
             after == conns'[c].chans[k]
             full == Cardinality(ActiveChans(c)) >= cfgLimit
         IN  cfgLimit > 0 =>
               /\ before = "rejected" => after = "rejected"
               /\ (before = "new" /\ after # "new" /\ full) =>
                      after = "rejected" /\ conns'[c].pc = "handle"
               /\ (before = "new" /\ after # "new" /\ ~full) =>
                      after = "active"]_vars

\* a channel admitted after an earlier one was rejected and a session ended
RejectedWitness ==
    \E c \in ConnIds : \E i, j, k \in ChanIds :
        /\ cfgLimit > 0
        /\ i < j /\ j < k
        /\ conns[c].chans[i] = "ended"
        /\ conns[c].chans[j] = "rejected"
        /\ conns[c].chans[k] = "active"

Attempted == lastAuth.user # Nil

\* C8: a callback for a user other than the service account, or for a DSA
\* key, returns an error and no permissions without one call to GetByKey.
EarlyRejectSkipsGateway ==
    (Attempted /\ (lastAuth.user # ConfigUser \/ lastAuth.keyType = KeyAlgoDSA))
        => /\ lastAuth.calls = 0
           /\ lastAuth.err # "none"
           /\ lastAuth.perms = NoPerms

\* the service account presenting a DSA key the gateway would have accepted
EarlyRejectWitness ==
    /\ lastAuth.user = ConfigUser
    /\ lastAuth.keyType = KeyAlgoDSA
    /\ lastAuth.gw = GwOk(7)
    /\ lastAuth.err = "DSA is prohibited"

DecimalValue ==
    "0" :> 0 @@ "1" :> 1 @@ "2" :> 2 @@ "3" :> 3 @@ "4" :> 4 @@
    "5" :> 5 @@ "6" :> 6 @@ "7" :> 7 @@ "8" :> 8 @@ "9" :> 9

RECURSIVE ParseDigits(_)
ParseDigits(str) ==
    IF str = <<>> THEN 0
    ELSE 10 * ParseDigits(SubSeq(str, 1, Len(str) - 1))
            + DecimalValue[str[Len(str)]]

\* the integer a canonical decimal string denotes, Nil for any other string
ParseDecimal(str) ==
    LET digits == IF str # <<>> /\ str[1] = "-" THEN Tail(str) ELSE str IN
    IF /\ digits # <<>>
       /\ \A n \in 1..Len(digits) : digits[n] \in DOMAIN DecimalValue
       /\ Len(digits) > 1 => digits[1] # "0"
       /\ (str[1] = "-") => digits # <<"0">>
    THEN (IF str[1] = "-" THEN 0 - ParseDigits(digits) ELSE ParseDigits(digits))
    ELSE -1000000

\* C9: past the user and key-type checks the callback returns permissions
\* exactly when GetByKey returned no error; an error gives no permissions,
\* a success gives the "key-id" extension that reads, in decimal, as the id
\* GetByKey returned.
GatewayDecides ==
    (Attempted /\ lastAuth.user = ConfigUser /\ lastAuth.keyType # KeyAlgoDSA)
        => /\ lastAuth.calls = 1
           /\ lastAuth.perms.ok <=> lastAuth.gw.err = "none"
           /\ lastAuth.gw.err # "none" =>
                 lastAuth.err = lastAuth.gw.err /\ lastAuth.perms = NoPerms
           /\ lastAuth.gw.err = "none" =>
                 /\ lastAuth.err = "none"
                 /\ ParseDecimal(lastAuth.perms.keyId) = lastAuth.gw.id

\* the gateway accepted a key of a negative, two-digit id
GatewayWitness ==
    /\ lastAuth.user = ConfigUser
    /\ lastAuth.gw = GwOk(-12)
    /\ lastAuth.perms = Permissions(<<"-", "1", "2">>)
    /\ \E c \in ConnIds : conns[c].perms = lastAuth.perms

\* C10: after a first Shutdown has completed, the steps of a further
\* Shutdown call change neither status nor listener; and a Shutdown that
\* found no listener changes nothing.
ShutdownIdempotent ==
    [][\A i \in ShutdownIds :
         (sdPc'[i] # sdPc[i]
            /\ (sdPc'[i] = "noop"
                  \/ \E j \in ShutdownIds \ {i} : sdPc[j] = "done"))
         => status' = status /\ listener' = listener]_vars

\* the usable files of a list, by position, in configured order
UsableKeys(files) ==
    SelectSeq([n \in 1..Len(files) |-> n], LAMBDA n : files[n] = "valid")

\* C11: with the gateway client constructed, NewServer returns a Server
\* exactly when some configured host key file is readable and parseable,
\* its hostKeys are then the usable keys in configured order, and with no
\* usable key it returns an error and no Server.
NewServerNeedsOneKey ==
    (ns.clientOk /\ ns.pc \in {"ok", "failed"}) =>
        /\ ns.pc = "ok" <=> UsableKeys(ns.files) # <<>>
        /\ ns.pc = "ok" =>
              ns.server /\ ns.err = Nil /\ ns.hostKeys = UsableKeys(ns.files)
        /\ ns.pc = "failed" => ~ns.server /\ ns.err # Nil

\* a Server built from the one good file of three, the second
NewServerWitness ==
    /\ ns.pc = "ok"
    /\ ns.files = <<"unreadable", "valid", "unparseable">>
    /\ ns.hostKeys = <<2>>
ShutdownsDone == {i \in ShutdownIds : sdPc[i] = "done"}

\* C12 (as claimed): over a run of ListenAndServe with Shutdown calls, Close
\* is invoked on the bound listener exactly one time.
CloseInvokedOnce ==
    /\ closeCalls <= 1
    /\ lasPc = "returned" => closeCalls = 1

\* C12 (amended): the bound listener goes from open to closed once, by the
\* first Close call, and never reopens; Close is invoked once by every
\* Shutdown call that found the listener and once more by the deferred call
\* of ListenAndServe when it returns.
ListenerClosedOnce ==
    /\ [](/\ closeCalls = Cardinality(ShutdownsDone)
                            + (IF lasPc = "returned" THEN 1 ELSE 0)
          /\ listener = "closed" <=> closeCalls > 0)
    /\ [][/\ listener = "closed" => listener' = "closed"
          /\ listener' # listener /\ listener' = "closed" =>
                closeCalls = 0 /\ closeCalls' = 1]_vars

\* one Shutdown and the return of ListenAndServe: two Close calls
ListenerClosedWitness ==
    /\ lasPc = "returned"
    /\ sdPc[1] = "done"
    /\ sdPc[2] = "idle"
    /\ closeCalls = 2
    /\ listener = "closed"
\* C13: when binding fails ListenAndServe returns the error without
\* entering the accept loop: status stays Starting, the listener stays
\* unset and never closed, no handler is spawned, and every Shutdown call
\* is a no-op.
BindFailureStopsServer ==
    lasPc = "bindError" =>
        /\ status = StatusStarting
        /\ listener = Nil
        /\ closeCalls = 0
        /\ wg = 0 /\ accepted = 0
        /\ \A c \in ConnIds : conns[c].pc = "none"
        /\ \A i \in ShutdownIds : sdPc[i] \in {"idle", "noop"}

\* Shutdown called twice on a server whose bind failed
BindFailureWitness ==
    /\ lasPc = "bindError"
    /\ \A i \in ShutdownIds : sdPc[i] = "noop"
\* C14: the step that follows an Accept error leaves the loop for wg.Wait
\* when the status it reads is OnShutdown, goes back to Accept for any other
\* status, and leaves the status as it is.
AcceptErrorHandling ==
    [][(lasPc = "acceptErr" /\ lasPc' # lasPc) =>
          /\ status = StatusOnShutdown => lasPc' = "wait"
          /\ status # StatusOnShutdown => lasPc' = "accept"
          /\ status' = status]_vars

\* the loop left on an Accept error during shutdown, a handler still running
AcceptErrorWitness ==
    /\ lasPc = "wait"
    /\ status = StatusOnShutdown
    /\ \E c \in ConnIds : HandlerRunning(c)
\* C15: the in-flight counter equals the number of handlers spawned and not
\* yet returned, on every exit path, and is never negative.
InFlightCountsHandlers ==
    /\ wg = Cardinality({c \in ConnIds : HandlerRunning(c)})
    /\ wg >= 0

\* one handler gone through a recovered panic, a second in its handshake
InFlightWitness ==
    /\ wg = 1
    /\ conns[1].pc = "done" /\ conns[1].panicked
    /\ conns[2].pc = "handshake"
\* C16: the units of the limiter that are held are exactly those of the
\* sessions still running, however the others ended: no unit leaks, none is
\* released twice, and with no session left the limiter is at full capacity.
LimiterUnitsMatchSessions ==
    \A c \in ConnIds :
        /\ conns[c].held = Cardinality(ActiveChans(c))
        /\ conns[c].held >= 0
        /\ ActiveChans(c) = {} => conns[c].held = 0

\* every channel of a limited connection was admitted in turn and has ended,
\* the last through a panic: the limiter is full again
LimiterWitness ==
    \E c \in ConnIds :
        /\ cfgLimit = 1
        /\ \A k \in ChanIds : conns[c].chans[k] = "ended"
        /\ conns[c].lastExit = "panic"
        /\ conns[c].held = 0
\* C17: a step of Shutdown changes only the status and the listener: the
\* context and the raw connection of every handler, the position of every
\* handler and the in-flight counter are left as they were, so the handlers
\* running at a Shutdown go on until they end on their own.
ShutdownLeavesHandlers ==
    [][sdPc' # sdPc =>
         /\ conns' = conns
         /\ wg' = wg
         /\ accepted' = accepted
         /\ lasPc' = lasPc]_vars

\* a Shutdown has returned while a handler serves its connection, context
\* live and connection open
ShutdownLeavesWitness ==
    \E i \in ShutdownIds, c \in ConnIds :
        /\ sdPc[i] = "done"
        /\ conns[c].pc = "handle"
        /\ conns[c].ctx = "live"
        /\ conns[c].nconn = "open"
\* C18: each handler has a context of its own: it is live and the raw
\* connection open while the handler runs; on every way the handler ends the
\* context is canceled and the connection closed before the in-flight counter
\* is decremented for it; and the step that cancels one connection's context
\* changes no other connection.
ContextPerConnection ==
    /\ [](\A c \in ConnIds :
            /\ conns[c].pc \in {"handshake", "handle"} =>
                   conns[c].ctx = "live" /\ conns[c].nconn = "open"
            /\ conns[c].pc \in {"deferDone", "done"} =>
                   conns[c].ctx = "canceled" /\ conns[c].nconn = "closed")
    /\ [][\A c \in ConnIds :
            (conns[c].ctx # "canceled" /\ conns'[c].ctx = "canceled") =>
                /\ conns[c].pc = "deferred"
                /\ \A d \in ConnIds \ {c} : conns'[d] = conns[d]
                /\ wg' = wg]_vars

\* one handler has ended through a recovered panic, context canceled and
\* connection closed, while the other still serves with a live context
ContextWitness ==
    \E c, d \in ConnIds :
        /\ conns[c].pc = "done" /\ conns[c].panicked
        /\ conns[c].ctx = "canceled" /\ conns[c].nconn = "closed"
        /\ conns[d].pc = "handle"
        /\ conns[d].ctx = "live" /\ conns[d].nconn = "open"
\* C19: the session built for an admitted channel carries the key-id the
\* gateway gave for the key accepted in the handshake of its own connection
\* and the peer address of that connection, never those of another
\* connection or of a refused attempt; a channel not admitted has no session.
SessionCarriesOwnIdentity ==
    \A c \in ConnIds, k \in ChanIds :
        IF conns[c].chans[k] \in {"active", "ended"}
        THEN /\ conns[c].authGw.err = "none"
             /\ ParseDecimal(conns[c].sessions[k].gitlabKeyId) = conns[c].authGw.id
             /\ conns[c].sessions[k].remoteAddr = RemoteAddr(c)
             /\ \A d \in ConnIds \ {c} :
                    conns[c].sessions[k].remoteAddr # RemoteAddr(d)
        ELSE conns[c].sessions[k] = NoSession

\* both connections have a session, each with its own identity and peer; the
\* first connection had a key refused before, and the last attempt seen was
\* the second connection's
SessionIdentityWitness ==
    /\ conns[1].rejected
    /\ conns[1].chans[1] = "active" /\ conns[2].chans[1] = "active"
    /\ conns[1].sessions[1].gitlabKeyId = <<"7">>
    /\ conns[2].sessions[1].gitlabKeyId = <<"1", "0", "5">>
    /\ lastAuth.gw = GwOk(105)
\* C20 as stated: every connection handler is started while status is Ready,
\* none once a Shutdown has set it to OnShutdown.
SpawnOnlyWhileReady == [][wg' = wg + 1 => status = StatusReady]_vars

\* C20, amended: a handler is started only from the accept loop, for a
\* connection Accept returned while the listener was open, with status Ready
\* or OnShutdown; once the listener is closed Accept returns no connection,
\* so at most the one connection already returned is still started.
SpawnOnlyAccepted ==
    /\ [][wg' = wg + 1 =>
            /\ lasPc = "spawn" /\ lasPc' = "accept"
            /\ accepted # 0
            /\ status \in {StatusReady, StatusOnShutdown}]_vars
    /\ [][(lasPc # "spawn" /\ lasPc' = "spawn") =>
            listener = "open" /\ lasPc = "accept" /\ accepted' # 0]_vars

\* a handler started after Shutdown had set OnShutdown serves its connection
SpawnedInShutdownWitness ==
    \E c \in ConnIds, i \in ShutdownIds :
        /\ ShutdownStarted(i)
        /\ conns[c].startedIn = StatusOnShutdown
        /\ conns[c].pc = "handle"
\* C21: whenever status is Ready, so that the readiness probe would answer
\* 200, the listener is bound and has not been closed.
ReadyImpliesListening ==
    status = StatusReady =>
        /\ listener = "open"
        /\ ReadinessCode(status) = HttpOK
====
